---------------------------- MODULE Spec2Model ----------------------------
(***************************************************************************)
(* Particle-filter tracking loop of tracking_object.ipynb.                 *)
(*                                                                         *)
(* Positions and velocities are float64 in the notebook.  Here they are    *)
(* fixed-point integers in units of 1/Scale pixel, so int() is a real      *)
(* truncation and a position can lie strictly between two pixel centres.   *)
(* The frame is a small grid (WIDTH x HEIGHT pixels) and the particle set  *)
(* is small (NUM_PARTICLES); the code is the same for every size.          *)
(***************************************************************************)
EXTENDS Integers, Sequences, FiniteSets, TLC

(* ---- configuration (cell 1 and cell 3 of the notebook), scaled down ---- *)
HEIGHT == 3
WIDTH == 3
NUM_PARTICLES == 2
\* VEL_RANGE = 0.5 pixel, kept as the fraction VEL_RANGE_NUM / VEL_RANGE_DEN
VEL_RANGE_NUM == 1
VEL_RANGE_DEN == 2

(* ---- bounds of the model ---- *)
\* number of frames the video file can hold
MaxFrames == 2
\* fixed-point resolution: one pixel is Scale units
Scale == 2

\* TARGET_COLOUR of compute_errors, and a second colour a pixel can have
TARGET_COLOUR == <<189, 105, 82>>
OTHER_COLOUR == <<187, 104, 81>>
Palette == {TARGET_COLOUR, OTHER_COLOUR}

\* frame[y, x, :] : rows 0..HEIGHT-1, columns 0..WIDTH-1
Pixels == (0 .. HEIGHT - 1) \X (0 .. WIDTH - 1)

\* The frames video.read() can deliver.  compute_errors reads one pixel per
\* particle, so with NUM_PARTICLES particles and two colours these frames
\* produce every error vector any frame can produce: no pixel, one pixel, or
\* every pixel has the target colour.
PaintedFrame(T) ==
    [p \in Pixels |-> IF p \in T THEN TARGET_COLOUR ELSE OTHER_COLOUR]

FrameSet ==
    { PaintedFrame(T) : T \in {{}, Pixels} \cup { {p} : p \in Pixels } }

\* the value the loop variable `frame` has when no frame is bound
None == <<>>

\* Gaussian noise of apply_noise, to the resolution of the model: a draw
\* moves a component one unit down or one unit up
NoiseSet == {-1, 1}

Pipeline ==
    << "apply_velocity", "enforce_edges", "compute_errors", "compute_weights",
       "resample", "apply_noise", "display" >>

VARIABLES
    pc,             \* where the main routine is
    particles,      \* global `particles`: NUM_PARTICLES rows (x, y, u, v)
    frame,          \* loop variable `frame`
    errors,         \* global `errors`
    weights,        \* global `weights`
    probabilities,  \* `probabilities` of the last resample call
    location,       \* global `location`
    terminate,      \* global `terminate`
    video,          \* the cv2.VideoCapture of get_frames
    gen,            \* where the generator get_frames is suspended
    prior,          \* parameter `particles` of the resample call that just returned
    calls           \* the stages the loop has called for the current frame

vars == << pc, particles, frame, errors, weights, probabilities, location,
           terminate, video, gen, prior, calls >>

Idx == 1 .. NUM_PARTICLES


(* ------------------------------ arithmetic ------------------------------ *)
RECURSIVE SeqSum(_)
SeqSum(s) == IF s = <<>> THEN 0 ELSE Head(s) + SeqSum(Tail(s))

RECURSIVE SeqMax(_)
SeqMax(s) ==
    IF Len(s) = 1 THEN Head(s)
    ELSE LET m == SeqMax(Tail(s)) IN IF Head(s) > m THEN Head(s) ELSE m

max(a, b) == IF b > a THEN b ELSE a
min(a, b) == IF b < a THEN b ELSE a

\* a / b truncated toward zero (b > 0): what Python's int() does to a float
TruncDiv(a, b) == IF a >= 0 THEN a \div b ELSE -((-a) \div b)

\* int(v) of a position v given in units of 1/Scale pixel
int(v) == TruncDiv(v, Scale)

\* variant: divides by count - 1 (the sample-variance denominator)
mean_bessel(col) == [num |-> SeqSum(col), den |-> Len(col) - 1]

\* np.mean of a column: the exact quotient sum / count, still in units
mean(col) == [num |-> SeqSum(col), den |-> Len(col)]

\* int(m) of a mean m
int_mean(m) == TruncDiv(m.num, m.den * Scale)

Column(ps, f) == [i \in DOMAIN ps |-> ps[i][f]]

(* ------------------------- initialize_particles ------------------------- *)
\* rand() * VEL_RANGE - VEL_RANGE/2 lies in [-VEL_RANGE/2, VEL_RANGE/2)
InitVel ==
    { v \in -Scale .. Scale :
        /\ -(VEL_RANGE_NUM * Scale) <= 2 * VEL_RANGE_DEN * v
        /\ 2 * VEL_RANGE_DEN * v < VEL_RANGE_NUM * Scale }

\* rand() * WIDTH lies in [0, WIDTH), rand() * HEIGHT in [0, HEIGHT)
initialize_particles ==
    [ Idx -> [ x : 0 .. WIDTH * Scale - 1, y : 0 .. HEIGHT * Scale - 1,
               u : InitVel, v : InitVel ] ]

(* ---------------------------- apply_velocity ---------------------------- *)
apply_velocity(ps) ==
    [i \in Idx |-> [ps[i] EXCEPT !.x = @ + ps[i].u, !.y = @ + ps[i].v]]

(* ----------------------------- enforce_edges ---------------------------- *)
\* variant: clamps to WIDTH and HEIGHT instead of WIDTH-1 and HEIGHT-1
enforce_edges_upto_size(ps) ==
    [i \in Idx |->
        [ps[i] EXCEPT !.x = max(0, min(WIDTH * Scale, @)),
                      !.y = max(0, min(HEIGHT * Scale, @))]]

enforce_edges(ps) ==
    [i \in Idx |->
        [ps[i] EXCEPT !.x = max(0, min((WIDTH - 1) * Scale, @)),
                      !.y = max(0, min((HEIGHT - 1) * Scale, @))]]

(* ---------------------------- compute_errors ---------------------------- *)
\* np.sum((TARGET_COLOUR - pixel_colour)**2)
ColourError(c) ==
    SeqSum([k \in 1 .. 3 |-> (TARGET_COLOUR[k] - c[k]) * (TARGET_COLOUR[k] - c[k])])

compute_errors(ps, fr) ==
    [i \in Idx |-> ColourError(fr[<< int(ps[i].y), int(ps[i].x) >>])]

(* ---------------------------- compute_weights --------------------------- *)
OnEdge(p) ==
    \/ p.x = 0
    \/ p.x = (WIDTH - 1) * Scale
    \/ p.y = 0
    \/ p.y = (HEIGHT - 1) * Scale

Pow4(w) == w * w * w * w

\* variant: the bottom edge y == HEIGHT-1 is not tested
compute_weights_no_bottom(errs) ==
    [i \in Idx |->
        Pow4(IF \/ particles[i].x = 0
                \/ particles[i].x = (WIDTH - 1) * Scale
                \/ particles[i].y = 0
             THEN 0 ELSE SeqMax(errs) - errs[i])]

\* reads the global `particles`, which is not a parameter
compute_weights(errs) ==
    [i \in Idx |->
        Pow4(IF OnEdge(particles[i]) THEN 0 ELSE SeqMax(errs) - errs[i])]

(* -------------------------------- resample ------------------------------ *)
\* weights / np.sum(weights): 0/0 is nan (numpy warns and goes on)
Normalize(ws) ==
    LET total == SeqSum(ws)
    IN  [i \in Idx |->
            IF total = 0 THEN [nan |-> TRUE, num |-> 0, den |-> 0]
            ELSE [nan |-> FALSE, num |-> ws[i], den |-> total]]

HasNaN(p) == \E i \in DOMAIN p : p[i].nan

\* variant: p is not passed, the draw is uniform over all n indices
choice_uniform(n, size, p) == [1 .. size -> 1 .. n]

\* np.random.choice(n, size, p) with valid p: every draw has probability > 0
choice(n, size, p) ==
    { ind \in [1 .. size -> 1 .. n] : \A k \in 1 .. size : p[ind[k]].num > 0 }

\* variant: the last drawn index is dropped (particles[indices[:-1], :])
take_all_but_last(ps, ind) == [k \in 1 .. Len(ind) - 1 |-> ps[ind[k]]]

\* particles[indices, :]
take(ps, ind) == [k \in DOMAIN ind |-> ps[ind[k]]]

estimate(ps) ==
    << int_mean(mean(Column(ps, "x"))), int_mean(mean(Column(ps, "y"))) >>

(* ------------------------------ apply_noise ----------------------------- *)
NoiseRows == [ Idx -> [ x : NoiseSet, y : NoiseSet, u : NoiseSet, v : NoiseSet ] ]

add_noise(ps, noise) ==
    [i \in Idx |-> [ x |-> ps[i].x + noise[i].x, y |-> ps[i].y + noise[i].y,
                     u |-> ps[i].u + noise[i].u, v |-> ps[i].v + noise[i].v ]]

(* -------------------------------- display ------------------------------- *)
ESC == 27
\* cv2.waitKey(30): no key within 30 ms (-1), or a key
Keys30 == {-1, ESC}
\* cv2.waitKey(0): waits for a key
Keys0 == {ESC, 32}

display_result(k1, k2) == k1 = ESC /\ k2 = ESC

(* ------------------------------ the program ----------------------------- *)
Init ==
    /\ pc = "for"
    /\ particles \in initialize_particles
    /\ frame = None
    /\ errors = <<>>
    /\ weights = <<>>
    /\ probabilities = <<>>
    /\ location = <<>>
    /\ terminate = FALSE
    /\ video \in [ opened : BOOLEAN, remaining : 0 .. MaxFrames, released : {FALSE} ]
    /\ gen = "start"
    /\ prior = <<>>
    /\ calls = <<>>

\* `for frame in get_frames(VFILENAME)`: next() runs the generator to its next
\* yield; then `if frame is None: break` and, after the loop,
\* cv2.destroyAllWindows().
Fetch ==
    /\ pc = "for"
    /\ gen \in {"start", "yield frame"}
    /\ \/ /\ video.opened /\ video.remaining > 0
          /\ \E f \in FrameSet : frame' = f
          /\ video' = [video EXCEPT !.remaining = @ - 1]
          /\ gen' = "yield frame"
          /\ pc' = "apply_velocity"
          /\ calls' = <<>>
       \/ /\ ~(video.opened /\ video.remaining > 0)
          /\ video' = [video EXCEPT !.opened = FALSE, !.released = TRUE]
          /\ frame' = None
          /\ gen' = "yield None"
          /\ pc' = "STOPPED"
          /\ calls' = calls
    /\ UNCHANGED << particles, errors, weights, probabilities, location, terminate, prior >>

ApplyVelocity ==
    /\ pc = "apply_velocity"
    /\ particles' = apply_velocity(particles)
    /\ calls' = Append(calls, "apply_velocity")
    /\ pc' = "enforce_edges"
    /\ UNCHANGED << frame, errors, weights, probabilities, location, terminate, video, gen, prior >>

EnforceEdges ==
    /\ pc = "enforce_edges"
    /\ particles' = enforce_edges(particles)
    /\ calls' = Append(calls, "enforce_edges")
    /\ pc' = "compute_errors"
    /\ UNCHANGED << frame, errors, weights, probabilities, location, terminate, video, gen, prior >>

ComputeErrors ==
    /\ pc = "compute_errors"
    /\ errors' = compute_errors(particles, frame)
    /\ calls' = Append(calls, "compute_errors")
    /\ pc' = "compute_weights"
    /\ UNCHANGED << particles, frame, weights, probabilities, location, terminate, video, gen, prior >>

ComputeWeights ==
    /\ pc = "compute_weights"
    /\ weights' = compute_weights(errors)
    /\ calls' = Append(calls, "compute_weights")
    /\ pc' = "resample"
    /\ UNCHANGED << particles, frame, errors, probabilities, location, terminate, video, gen, prior >>

\* np.random.choice raises ValueError when p holds nan; nothing catches it,
\* so the cell ends there.
Resample ==
    /\ pc = "resample"
    /\ calls' = Append(calls, "resample")
    /\ probabilities' = Normalize(weights)
    /\ prior' = particles
    /\ \/ /\ HasNaN(probabilities')
          /\ pc' = "ValueError"
          /\ UNCHANGED << particles, location >>
       \/ /\ ~HasNaN(probabilities')
          /\ \E ind \in choice(NUM_PARTICLES, NUM_PARTICLES, probabilities') :
                particles' = take(particles, ind)
          /\ location' = estimate(particles')
          /\ pc' = "apply_noise"
    /\ UNCHANGED << frame, errors, weights, terminate, video, gen >>

ApplyNoise ==
    /\ pc = "apply_noise"
    /\ \E noise \in NoiseRows : particles' = add_noise(particles, noise)
    /\ calls' = Append(calls, "apply_noise")
    /\ pc' = "display"
    /\ prior' = <<>>
    /\ UNCHANGED << frame, errors, weights, probabilities, location, terminate, video, gen >>

\* display(frame, particles, location), then `if terminate: break`.  The circle
\* display draws goes into a frame nothing reads again.  A break
\* drops the generator while it is suspended at `yield frame`: it is closed
\* there, and the statements after its loop never run.
Display ==
    /\ pc = "display"
    /\ \E k1 \in Keys30, k2 \in Keys0 : terminate' = display_result(k1, k2)
    /\ calls' = Append(calls, "display")
    /\ IF terminate'
       THEN pc' = "STOPPED" /\ gen' = "closed"
       ELSE pc' = "for" /\ gen' = gen
    /\ UNCHANGED << particles, frame, errors, weights, probabilities, location, video, prior >>

Next ==
    \/ Fetch
    \/ ApplyVelocity
    \/ EnforceEdges
    \/ ComputeErrors
    \/ ComputeWeights
    \/ Resample
    \/ ApplyNoise
    \/ Display

Spec == Init /\ [][Next]_vars

\* The interpreter runs the next statement of the cell as long as there is one.
FairSpec == Spec /\ WF_vars(Next)


(* ================================ claims ================================ *)
IsPrefix(s, t) == Len(s) <= Len(t) /\ \A k \in 1 .. Len(s) : s[k] = t[k]

\* C1: for every frame the source delivers, the loop calls the seven stages
\* exactly once each, in the order of Pipeline, and is not back at the `for`
\* statement (or out of the loop) before display of that frame has returned.
C1_EveryFrameRunsEveryStageOnce ==
    /\ IsPrefix(calls, Pipeline)
    /\ (pc \in {"for", "STOPPED", "ValueError"} /\ frame # None) => calls = Pipeline

\* C2: with an all-zero weight vector at the resampling step, no nan
\* probability is computed and handed to the sampler; the step either keeps
\* the prior generation and goes on to diffusion, or reports a
\* degenerate-weights error.
C2_ZeroSumTakesFallback ==
    [][ (pc = "resample" /\ SeqSum(weights) = 0) =>
            /\ ~HasNaN(probabilities')
            /\ \/ pc' = "apply_noise" /\ particles' = particles
               \/ pc' = "DegenerateWeights" ]_vars

\* C3: the weight vector handed to resample sums to a strictly positive number.
C3_WeightSumPositive ==
    pc = "resample" => SeqSum(weights) > 0

\* C4: after enforce_edges every particle has 0 <= x <= WIDTH-1 and
\* 0 <= y <= HEIGHT-1, and the pixel index (int(y), int(x)) that
\* compute_errors reads is inside the grid.
C4_ClampedAndIndexInGrid ==
    pc \in {"compute_errors", "compute_weights", "resample"} =>
        \A i \in Idx :
            /\ 0 <= particles[i].x /\ particles[i].x <= (WIDTH - 1) * Scale
            /\ 0 <= particles[i].y /\ particles[i].y <= (HEIGHT - 1) * Scale
            /\ int(particles[i].x) \in 0 .. WIDTH - 1
            /\ int(particles[i].y) \in 0 .. HEIGHT - 1

\* a particle pinned to the right edge whose velocity points out of the frame,
\* in a frame after the first, beside a particle between two pixel centres
C4_Witness ==
    /\ pc = "compute_errors"
    /\ \E i \in Idx : particles[i].x = (WIDTH - 1) * Scale /\ particles[i].u > 0
    /\ \E i \in Idx : particles[i].x % Scale # 0

\* C5: after weight shaping every weight is >= 0, and it is exactly 0 for every
\* particle of the generation scored in this frame that lies on an edge; the
\* generation the weights were shaped on is the one that was scored.
C5_EdgeWeightsZero ==
    pc = "resample" =>
        /\ errors = compute_errors(particles, frame)
        /\ \A i \in Idx :
            /\ weights[i] >= 0
            /\ ( \/ particles[i].x \in {0, (WIDTH - 1) * Scale}
                 \/ particles[i].y \in {0, (HEIGHT - 1) * Scale} ) => weights[i] = 0

\* an edge particle on a better pixel than the other one: only the edge rule
\* makes its weight 0
C5_Witness ==
    /\ pc = "resample"
    /\ \E i \in Idx :
        /\ particles[i].y = (HEIGHT - 1) * Scale
        /\ errors[i] < SeqMax(errors)
        /\ weights[i] = 0

\* C6: the particle set holds exactly NUM_PARTICLES particles in every state,
\* and every particle of the generation resample returns is a copy of a
\* particle of the generation it was given.
C6_SizeConstantAndCopies ==
    /\ DOMAIN particles = Idx
    /\ pc = "apply_noise" =>
          \A i \in DOMAIN particles : \E j \in DOMAIN prior : particles[i] = prior[j]

\* a fully skewed draw: one particle had weight 0, the new generation is made
\* of copies of the other
C6_Witness ==
    /\ pc = "apply_noise"
    /\ \E i \in Idx : weights[i] = 0
    /\ \A i, j \in Idx : particles[i] = particles[j]
    /\ \E i, j \in Idx : prior[i] # prior[j]

\* C7: when the loop has exited, release() has been called on the video.
C7_ReleasedOnExit ==
    pc = "STOPPED" => video.released

\* C8: every particle resample draws had a strictly positive weight, so no
\* particle of the new generation, before diffusion, lies on an edge.
C8_EdgeNeverResampled ==
    pc = "apply_noise" =>
        \A i \in Idx :
            /\ \E j \in Idx : particles[i] = prior[j] /\ weights[j] > 0
            /\ particles[i].x \notin {0, (WIDTH - 1) * Scale}
            /\ particles[i].y \notin {0, (HEIGHT - 1) * Scale}

\* resample has drawn a new generation from one that held a particle pinned
\* to an edge
C8_Witness ==
    /\ pc = "apply_noise"
    /\ \E j \in Idx : OnEdge(prior[j])

\* C9: the loop eventually reaches STOPPED.
C9_EventuallyStopped ==
    <>(pc = "STOPPED")

\* C10: the estimate handed to display is a pixel inside the frame, and it is
\* the truncated mean of the post-resample generation, taken before diffusion.
C10_EstimateInFrame ==
    /\ pc \in {"apply_noise", "display"} =>
          /\ location[1] \in 0 .. WIDTH - 1
          /\ location[2] \in 0 .. HEIGHT - 1
    /\ pc = "apply_noise" =>
          location = << TruncDiv(SeqSum(Column(particles, "x")), NUM_PARTICLES * Scale),
                        TruncDiv(SeqSum(Column(particles, "y")), NUM_PARTICLES * Scale) >>

\* display receives a diffused particle set whose own truncated mean is not
\* the estimate it receives
C10_Witness ==
    /\ pc = "display"
    /\ location # estimate(particles)

=============================================================================
